---- MODULE Spec2Model ----
(***************************************************************************)
(* A model of shop/mainapp: the relational store behind models.py, the     *)
(* save() overrides of Product and CartProduct, the two manager queries    *)
(* (LatestProductsManager, CategoryManager) and the product_spec template  *)
(* filter with its module-level PRODUCT_SPEC mapping.                      *)
(*                                                                         *)
(* Money is counted in hundredths (DecimalField(decimal_places=2)), so     *)
(* 10.00 is 1000.  The Cyrillic literals of the source are transliterated  *)
(* to ASCII; each transliteration names the literal's source line.         *)
(***************************************************************************)
EXTENDS Integers, Sequences, FiniteSets, TLC

VARIABLES
    db,             \* the database: model_name -> rows, a row's id is its index
    contenttypes,   \* the ContentType rows in the order a query returns them
    outcome,        \* what the last operation returned or raised
    PRODUCT_SPEC,   \* specifications.py: the module-level mapping (shared)
    pc,             \* per rendering thread: its position in product_spec
    product,        \* per rendering thread: the instance it renders
    iter,           \* per rendering thread: the dict iterator of get_product_spec
    table_content   \* per rendering thread: the rows rendered so far

vars == <<db, contenttypes, outcome, PRODUCT_SPEC, pc, product, iter, table_content>>

(***************************************************************************)
(* Bounds of the model.                                                    *)
(***************************************************************************)
MaxProducts == 1        \* rows per product table that Product.save may create
MaxCartProducts == 1    \* rows CartProduct.save may create

\* The value of an attribute that was never set (Python's None).
None == -1

(***************************************************************************)
(* models.py: Product                                                      *)
(***************************************************************************)
MinHeight == 300
MinWidth == 300
MaxHeight == 2500
MaxWidth == 2500

\* A mutant of the minimum check: both dimensions must be too small.
TooSmallBoth(height, width) == height < MinHeight /\ width < MinWidth

\* Product.save, line 117: img.height < min_height or img.width < min_width
TooSmall(height, width) == height < MinHeight \/ width < MinWidth

\* A mutant of the maximum check: both dimensions must be too large.
TooLargeBoth(height, width) == height > MaxHeight /\ width > MaxWidth

\* Product.save, line 119: img.height > max_height or img.width > max_width
TooLarge(height, width) == height > MaxHeight \/ width > MaxWidth

\* Product.save, lines 117-121: what the call raises ("" when it returns).
ProductSaveRaises(height, width) ==
    IF TooSmall(height, width) THEN "MinResolutionErrorException"
    ELSE IF TooLarge(height, width) THEN "MaxResolutionErrorException"
    ELSE ""

\* models.Model.save as the overrides call it (super().save()): the row with
\* primary key id is written, a new row when id is the next free key.
Persist(table, id, row) ==
    IF id = Len(table) + 1 THEN Append(table, row) ELSE [table EXCEPT ![id] = row]

ProductModels == {"notebook", "smartphone"}

\* Image dimensions around both limits.
Dims == {299, 300, 2500, 2501}

\* Prices (two decimal places): 0.00, 5.00, 10.00 and 5,000,000.00.
Prices == {0, 500, 1000, 500000000}

\* The fields of a Notebook / Smartphone instance that the model keeps.
Instances(ct, categoryIds, prices, sds, volumes) ==
    IF ct = "smartphone"
    THEN [category : categoryIds, price : prices, sd : sds, sd_volume : volumes]
    ELSE [category : categoryIds, price : prices]

\* A mutant of the write: saving a product also re-prices the cart lines that
\* refer to it.
ProductSaveDbRepricing(ct, id, self) ==
    [db EXCEPT ![ct] = Persist(db[ct], id, self),
               !.cartproduct = [i \in DOMAIN db.cartproduct |->
                    IF db.cartproduct[i].content_type = ct /\ db.cartproduct[i].object_id = id
                    THEN [db.cartproduct[i] EXCEPT !.final_price = db.cartproduct[i].qty * self.price]
                    ELSE db.cartproduct[i]]]

\* Product.save, line 121: super().save() writes the product's own row and
\* no other table.
ProductSaveDb(ct, id, self) == [db EXCEPT ![ct] = Persist(db[ct], id, self)]

\* Product.save(self) on an instance of model ct with primary key id, whose
\* attached image is height x width.
ProductSave(ct, id, self, height, width) ==
    /\ ct \in ProductModels
    /\ id \in 1..(Len(db[ct]) + 1)
    /\ id <= MaxProducts
    /\ LET raises == ProductSaveRaises(height, width) IN
        /\ outcome' = [op |-> "Product.save", raises |-> raises, ret |-> <<height, width>>]
        /\ db' = IF raises = "" THEN ProductSaveDb(ct, id, self) ELSE db
    /\ UNCHANGED <<contenttypes, PRODUCT_SPEC, pc, product, iter, table_content>>

(***************************************************************************)
(* models.py: CartProduct                                                  *)
(***************************************************************************)
\* final_price = models.DecimalField(max_digits=9, decimal_places=2): the
\* largest amount the field stores, 9,999,999.99.  Saving a larger one raises
\* (decimal.InvalidOperation from the field's quantize to max_digits, or the
\* database's numeric overflow) and writes nothing.
MaxDecimal == 999999999

Qtys == {1, 3}

\* final_price as the caller may have set it before save (None: never set).
GivenFinalPrices == {None, 7}

\* A mutant of the pricing: a final_price the caller set is kept.
FinalPriceKeepGiven(given, qty, price) == IF given # None THEN given ELSE qty * price

\* CartProduct.save, line 137: self.final_price = self.qty * self.content_object.price
FinalPrice(given, qty, price) == qty * price

\* GenericForeignKey('content_type', 'object_id'): whether the reference
\* resolves to a row (content_object is None when it does not).
HasContentObject(ct, object_id) == ct \in DOMAIN db /\ object_id \in 1..Len(db[ct])

\* GenericForeignKey('content_type', 'object_id'): the referenced row.
ContentObject(ct, object_id) == db[ct][object_id]

\* CartProduct.save(self) on the instance with primary key id whose fields are
\* content_type, object_id, qty and final_price (= given) at the call.
CartProductSave(id, ct, object_id, qty, given) ==
    /\ id \in 1..(Len(db.cartproduct) + 1)
    /\ id <= MaxCartProducts
    /\ LET found == HasContentObject(ct, object_id)
           final == IF found THEN FinalPrice(given, qty, ContentObject(ct, object_id).price)
                    ELSE None
           raises == IF ~found THEN "AttributeError"
                     ELSE IF final > MaxDecimal THEN "InvalidOperation"
                     ELSE ""
           self == [content_type |-> ct, object_id |-> object_id, qty |-> qty,
                    final_price |-> final]
       IN
        /\ outcome' = [op |-> "CartProduct.save", raises |-> raises, ret |-> <<id, ct, object_id, qty, given>>]
        /\ db' = IF raises = ""
                 THEN [db EXCEPT !.cartproduct = Persist(db.cartproduct, id, self)]
                 ELSE db
    /\ UNCHANGED <<contenttypes, PRODUCT_SPEC, pc, product, iter, table_content>>

(***************************************************************************)
(* models.py: LatestProductsManager                                        *)
(***************************************************************************)
\* A model name as its characters, for str.startswith.
Chars(name) ==
    CASE name = "category" -> <<"c", "a", "t", "e", "g", "o", "r", "y">>
      [] name = "cartproduct" -> <<"c", "a", "r", "t", "p", "r", "o", "d", "u", "c", "t">>
      [] name = "cart" -> <<"c", "a", "r", "t">>
      [] name = "notebook" -> <<"n", "o", "t", "e", "b", "o", "o", "k">>
      [] name = "smartphone" -> <<"s", "m", "a", "r", "t", "p", "h", "o", "n", "e">>
      [] name = "tablet" -> <<"t", "a", "b", "l", "e", "t">>
      [] OTHER -> <<>>

\* str.startswith(prefix)
StartsWith(name, prefix) ==
    /\ Len(Chars(prefix)) <= Len(Chars(name))
    /\ SubSeq(Chars(name), 1, Len(Chars(prefix))) = Chars(prefix)

Reverse(seq) == [i \in 1..Len(seq) |-> seq[Len(seq) + 1 - i]]

RECURSIVE Concat(_)
\* list.extend over a sequence of sequences
Concat(seqs) == IF seqs = <<>> THEN <<>> ELSE Head(seqs) \o Concat(Tail(seqs))

\* The slice [:5] of line 36.
LatestLimit == 5

\* A mutant of the fetch: oldest first (order_by('id')).
LatestOfAscending(ct) ==
    [i \in 1..(IF Len(db[ct]) < LatestLimit THEN Len(db[ct]) ELSE LatestLimit) |-> <<ct, i>>]

\* Line 36: ct_model.model_class()._base_manager.all().order_by('-id')[:5],
\* an instance being <<model_name, id>>.
LatestOf(ct) ==
    [i \in 1..(IF Len(db[ct]) < LatestLimit THEN Len(db[ct]) ELSE LatestLimit) |->
        <<ct, Len(db[ct]) + 1 - i>>]

\* Line 34: ContentType.objects.filter(model__in=args)
CtModels(args) == SelectSeq(contenttypes, LAMBDA model : model \in args)

\* Lines 33-37: the products list after the loop.
FetchedProducts(args) ==
    LET ct_models == CtModels(args) IN
        Concat([i \in 1..Len(ct_models) |-> LatestOf(ct_models[i])])

\* Line 43: the sort key, x.__class__._meta.model_name.startswith(with_respect_to)
SortKey(x, with_respect_to) == StartsWith(x[1], with_respect_to)

\* Lines 42-44: sorted(products, key=..., reverse=True) on a Boolean key.
\* list.sort with reverse=True reverses, sorts stably ascending (False before
\* True) and reverses again.
SortedReverse(products, with_respect_to) ==
    LET reversed == Reverse(products)
        ascending ==
            SelectSeq(reversed, LAMBDA x : ~SortKey(x, with_respect_to))
                \o SelectSeq(reversed, LAMBDA x : SortKey(x, with_respect_to))
    IN  Reverse(ascending)

\* Line 39-40: ContentType.objects.filter(model=with_respect_to).exists()
CtExists(model) == \E i \in 1..Len(contenttypes) : contenttypes[i] = model

\* Lines 31-45.  with_respect_to is "" when the keyword is not given.
get_products_for_main_page(args, with_respect_to) ==
    LET products == FetchedProducts(args) IN
        IF with_respect_to # "" /\ CtExists(with_respect_to) /\ with_respect_to \in args
        THEN SortedReverse(products, with_respect_to)
        ELSE products

\* A call of LatestProducts.objects.get_products_for_main_page.
GetProductsForMainPage(args, with_respect_to) ==
    /\ outcome' = [op |-> "get_products_for_main_page", raises |-> "",
                   ret |-> <<args, with_respect_to,
                             get_products_for_main_page(args, with_respect_to)>>]
    /\ UNCHANGED <<db, contenttypes, PRODUCT_SPEC, pc, product, iter, table_content>>

(***************************************************************************)
(* models.py: CategoryManager                                              *)
(***************************************************************************)
\* Category names: the two keys of CATEGORY_NAME_COUNT_NAME (lines 55-56,
\* transliterated) and a name it does not hold.
NOUTBUKI == "Noutbuki"
SMARTFONY == "Smartfony"
PLANSHETY == "Planshety"

\* A mutant of the lookup: an unknown name counts notebooks (dict.get with a
\* default) instead of raising.
CountNameOrDefault(name) ==
    CASE name = NOUTBUKI -> "notebook__count"
      [] name = SMARTFONY -> "smartphone__count"
      [] OTHER -> "notebook__count"

\* self.CATEGORY_NAME_COUNT_NAME[c.name], lines 54-57 and 66; "KeyError" when
\* the name is no key.
CATEGORY_NAME_COUNT_NAME(name) ==
    CASE name = NOUTBUKI -> "notebook__count"
      [] name = SMARTFONY -> "smartphone__count"
      [] OTHER -> "KeyError"

\* The ids of the rows of a product table that refer to category c.
RelatedIds(model, c) == {i \in 1..Len(db[model]) : db[model][i].category = c}

\* Line 64: the rows of the query of annotate(Count('notebook'),
\* Count('smartphone')) for category c.  Both relations are LEFT OUTER JOINed
\* in one query: a row per pair of a related notebook and a related
\* smartphone, None standing for a relation without rows.
JoinedRows(c) ==
    LET side(model) == IF RelatedIds(model, c) = {} THEN {None} ELSE RelatedIds(model, c)
    IN  side("notebook") \X side("smartphone")

\* Lines 12-13 and 64: the annotations of category c, COUNT of the non-null
\* ids of each relation over the joined rows.
Annotated(c) ==
    [notebook__count |-> Cardinality({r \in JoinedRows(c) : r[1] # None}),
     smartphone__count |-> Cardinality({r \in JoinedRows(c) : r[2] # None})]

\* Category.get_absolute_url, line 81.
CategoryUrl(c) == <<"category_detail", db.category[c].slug>>

\* Lines 62-69: what the call raises ("" when it returns).
SidebarRaises ==
    IF \E c \in 1..Len(db.category) :
            CATEGORY_NAME_COUNT_NAME(db.category[c].name) = "KeyError"
    THEN "KeyError" ELSE ""

\* Lines 65-69: the list the call returns.
SidebarData ==
    [c \in 1..Len(db.category) |->
        [name |-> db.category[c].name,
         url |-> CategoryUrl(c),
         count |-> Annotated(c)[CATEGORY_NAME_COUNT_NAME(db.category[c].name)]]]

\* A call of Category.objects.get_categories_for_left_sidebar.
GetCategoriesForLeftSidebar ==
    /\ outcome' = [op |-> "get_categories_for_left_sidebar", raises |-> SidebarRaises,
                   ret |-> IF SidebarRaises = "" THEN SidebarData ELSE <<>>]
    /\ UNCHANGED <<db, contenttypes, PRODUCT_SPEC, pc, product, iter, table_content>>

(***************************************************************************)
(* templatetags/specifications.py.  A dict is the sequence of its          *)
(* <<key, value>> items in insertion order; the labels are transliterated. *)
(***************************************************************************)
\* Line 44: the label of the sd_volume row.
SD_VOLUME_LABEL == "Maks. obyom vstraivaemoy pamyati"

\* Line 63: the key product_spec pops.
POPPED_LABEL == "Maksimalnyy obem SD karty"

\* Lines 28-48.
PRODUCT_SPEC_INITIAL ==
    [notebook |-> <<
        <<"Diagonal", "diagonal">>,
        <<"Tip displeya", "display_type">>,
        <<"Chastota protsessora", "processor_freq">>,
        <<"Operativnaya pamyat", "ram">>,
        <<"Videokarta", "video">>,
        <<"Vremya raboty akkumulyatora", "time_without_charge">> >>,
     smartphone |-> <<
        <<"Diagonal", "diagonal">>,
        <<"Tip displeya", "display_type">>,
        <<"Razreshenie ekrana", "resolution">>,
        <<"Obem batarei", "accum_volume">>,
        <<"Operativnaya pamyat", "ram">>,
        <<"SD karta", "sd">>,
        <<SD_VOLUME_LABEL, "sd_volume">>,
        <<"Kamera (MP)", "main_cam">>,
        <<"Frontalnaya kamera (MP)", "front_cam">> >>]

HasKey(dict, key) == \E i \in 1..Len(dict) : dict[i][1] = key

\* dict.pop(key, None)
DictPop(dict, key) == SelectSeq(dict, LAMBDA item : item[1] # key)

\* dict[key] = value: a present key keeps its place, a new one goes last.
DictSet(dict, key, value) ==
    IF HasKey(dict, key)
    THEN [i \in 1..Len(dict) |-> IF dict[i][1] = key THEN <<key, value>> ELSE dict[i]]
    ELSE Append(dict, <<key, value>>)

\* Line 54: getattr(product, value) as str.format renders it.  The text
\* fields the model does not keep are blank.
FormatAttr(instance, attr) ==
    CASE attr = "sd" -> IF instance.sd THEN "True" ELSE "False"
      [] attr = "sd_volume" -> instance.sd_volume
      [] OTHER -> ""

Threads == {1, 2}

\* The instances a template renders.
Rendered ==
    [model_name : {"smartphone"}, sd : BOOLEAN, sd_volume : {"64"}]
        \cup [model_name : {"notebook"}]

IdleThreads ==
    /\ pc = [t \in Threads |-> "idle"]
    /\ product = [t \in Threads |-> [model_name |-> "none"]]
    /\ iter = [t \in Threads |-> [size |-> 0, pos |-> 0]]
    /\ table_content = [t \in Threads |-> <<>>]

\* product_spec(product) is called (lines 59-60).
Call(t, instance) ==
    /\ pc[t] = "idle"
    /\ pc' = [pc EXCEPT ![t] = "toggle"]
    /\ product' = [product EXCEPT ![t] = instance]
    /\ UNCHANGED <<db, contenttypes, outcome, PRODUCT_SPEC, iter, table_content>>

\* Lines 61-65 on the shared mapping.
Toggled(instance) ==
    IF instance.model_name = "smartphone"
    THEN IF ~instance.sd
         THEN [PRODUCT_SPEC EXCEPT !.smartphone = DictPop(@, POPPED_LABEL)]
         ELSE [PRODUCT_SPEC EXCEPT !.smartphone = DictSet(@, SD_VOLUME_LABEL, "sd_volume")]
    ELSE PRODUCT_SPEC

\* Lines 61-65.
Toggle(t) ==
    /\ pc[t] = "toggle"
    /\ PRODUCT_SPEC' = Toggled(product[t])
    /\ pc' = [pc EXCEPT ![t] = "enter"]
    /\ UNCHANGED <<db, contenttypes, outcome, product, iter, table_content>>

\* get_product_spec, lines 52-53: table_content = '' and the iterator over
\* PRODUCT_SPEC[model_name].items() is made.
Enter(t) ==
    /\ pc[t] = "enter"
    /\ table_content' = [table_content EXCEPT ![t] = <<>>]
    /\ iter' = [iter EXCEPT ![t] =
                    [size |-> Len(PRODUCT_SPEC[product[t].model_name]), pos |-> 0]]
    /\ pc' = [pc EXCEPT ![t] = "loop"]
    /\ UNCHANGED <<db, contenttypes, outcome, PRODUCT_SPEC, product>>

\* get_product_spec, lines 53-54: one step of the loop.  The iterator raises
\* RuntimeError when the dict changed size since it was made.
Iterate(t) ==
    /\ pc[t] = "loop"
    /\ LET dict == PRODUCT_SPEC[product[t].model_name] IN
        IF Len(dict) # iter[t].size
        THEN /\ pc' = [pc EXCEPT ![t] = "raised"]
             /\ UNCHANGED <<iter, table_content>>
        ELSE IF iter[t].pos < Len(dict)
        THEN /\ table_content' = [table_content EXCEPT ![t] =
                    Append(@, <<dict[iter[t].pos + 1][1],
                                FormatAttr(product[t], dict[iter[t].pos + 1][2])>>)]
             /\ iter' = [iter EXCEPT ![t].pos = @ + 1]
             /\ UNCHANGED pc
        ELSE /\ pc' = [pc EXCEPT ![t] = "return"]
             /\ UNCHANGED <<iter, table_content>>
    /\ UNCHANGED <<db, contenttypes, outcome, PRODUCT_SPEC, product>>

\* Lines 55 and 66: the table is returned (or RuntimeError propagates).
Return(t) ==
    /\ pc[t] \in {"return", "raised"}
    /\ outcome' = [op |-> "product_spec",
                   raises |-> IF pc[t] = "raised" THEN "RuntimeError" ELSE "",
                   ret |-> <<product[t], IF pc[t] = "raised" THEN <<>> ELSE table_content[t]>>]
    /\ pc' = [pc EXCEPT ![t] = "idle"]
    /\ product' = [product EXCEPT ![t] = [model_name |-> "none"]]
    /\ iter' = [iter EXCEPT ![t] = [size |-> 0, pos |-> 0]]
    /\ table_content' = [table_content EXCEPT ![t] = <<>>]
    /\ UNCHANGED <<db, contenttypes, PRODUCT_SPEC>>

(***************************************************************************)
(* The store                                                               *)
(***************************************************************************)
\* The modelled tables, empty.  Customer and Order rows take part in nothing
\* the model covers.
EmptyDb ==
    [category |-> <<>>, notebook |-> <<>>, smartphone |-> <<>>,
     cartproduct |-> <<>>, cart |-> <<>>]

\* The ContentType rows of the modelled tables, in the order models.py
\* defines the models.
ModelOrder == <<"category", "cartproduct", "cart", "notebook", "smartphone">>

Category(name, slug) == [name |-> name, slug |-> slug]

(***************************************************************************)
(* Spec: products are created and saved again with images of every size.   *)
(***************************************************************************)
SavedInstances(ct) == Instances(ct, {1}, Prices, {TRUE}, {"64"})

Init ==
    /\ db = [EmptyDb EXCEPT !.category = <<Category(NOUTBUKI, "noutbuki")>>]
    /\ contenttypes = ModelOrder
    /\ outcome = [op |-> "none", raises |-> "", ret |-> <<>>]
    /\ PRODUCT_SPEC = PRODUCT_SPEC_INITIAL
    /\ IdleThreads

Next ==
    \E ct \in ProductModels, id \in 1..MaxProducts, height \in Dims, width \in Dims :
        \E self \in SavedInstances(ct) : ProductSave(ct, id, self, height, width)

Spec == Init /\ [][Next]_vars

(***************************************************************************)
(* CartSpec: one notebook and one smartphone are on sale; their prices     *)
(* change and cart lines referring to them are saved.                      *)
(***************************************************************************)
ObjectIds == {1, 2}

\* The images of the products saved here: one passes the checks, one does not.
CartImages == {<<300, 300>>, <<299, 300>>}

CartInit ==
    /\ \E n \in SavedInstances("notebook"), s \in SavedInstances("smartphone") :
        db = [EmptyDb EXCEPT !.category = <<Category(NOUTBUKI, "noutbuki")>>,
                             !.notebook = <<n>>, !.smartphone = <<s>>]
    /\ contenttypes = ModelOrder
    /\ outcome = [op |-> "none", raises |-> "", ret |-> <<>>]
    /\ PRODUCT_SPEC = PRODUCT_SPEC_INITIAL
    /\ IdleThreads

CartNext ==
    \/ \E ct \in ProductModels, image \in CartImages :
        \E id \in 1..Len(db[ct]), self \in SavedInstances(ct) :
            ProductSave(ct, id, self, image[1], image[2])
    \/ \E id \in 1..MaxCartProducts, ct \in ProductModels, object_id \in ObjectIds,
          qty \in Qtys, given \in GivenFinalPrices :
            CartProductSave(id, ct, object_id, qty, given)

CartSpec == CartInit /\ [][CartNext]_vars

(***************************************************************************)
(* LatestSpec: the main page asks for the latest products of a store that  *)
(* holds none, a few or more than five rows per table.                     *)
(***************************************************************************)
MaxRows == 6

\* n rows of a table.
Rows(n, row) == [i \in 1..n |-> row]

\* The order in which an unordered ContentType query returns its rows is the
\* database's choice: the order of definition and its reverse are modelled.
ContentTypeOrders == {ModelOrder, Reverse(ModelOrder)}

\* The type names a caller passes: four models and a name that is no model.
RequestedNames == {"notebook", "smartphone", "cart", "cartproduct", "tablet"}

LatestInit ==
    /\ \E n \in {0, 2, MaxRows}, s \in {1, MaxRows}, c \in {0, 1}, cp \in {0, 1} :
        db = [category |-> <<Category(NOUTBUKI, "noutbuki")>>,
              notebook |-> Rows(n, [category |-> 1, price |-> 0]),
              smartphone |-> Rows(s, [category |-> 1, price |-> 0, sd |-> TRUE,
                                      sd_volume |-> "64"]),
              cart |-> Rows(c, [total_products |-> 0, final_price |-> 0]),
              cartproduct |-> Rows(cp, [content_type |-> "notebook", object_id |-> 1,
                                        qty |-> 1, final_price |-> 0])]
    /\ contenttypes \in ContentTypeOrders
    /\ outcome = [op |-> "none", raises |-> "", ret |-> <<>>]
    /\ PRODUCT_SPEC = PRODUCT_SPEC_INITIAL
    /\ IdleThreads

LatestNext ==
    \E args \in SUBSET RequestedNames, with_respect_to \in RequestedNames \cup {""} :
        GetProductsForMainPage(args, with_respect_to)

LatestSpec == LatestInit /\ [][LatestNext]_vars

(***************************************************************************)
(* SidebarSpec: the sidebar is computed over stores of up to MaxCategories *)
(* categories and up to MaxPerVariant products of each variant.            *)
(***************************************************************************)
MaxCategories == 2
MaxPerVariant == 3

CategoryNames == {NOUTBUKI, SMARTFONY, PLANSHETY}

Slug(i) == <<"slug", i>>

\* The category columns of up to MaxPerVariant product rows over n
\* categories.  The sidebar only counts the rows, so they are drawn in
\* non-decreasing category order.
CategoryColumns(n) ==
    {col \in UNION {[1..len -> 1..n] : len \in 0..MaxPerVariant} :
        \A i \in DOMAIN col, j \in DOMAIN col : i < j => col[i] <= col[j]}

SidebarInit ==
    /\ \E n \in 1..MaxCategories :
        \E names \in [1..n -> CategoryNames],
           notebooks \in CategoryColumns(n), smartphones \in CategoryColumns(n) :
            db = [EmptyDb EXCEPT
                    !.category = [c \in 1..n |-> Category(names[c], Slug(c))],
                    !.notebook = [i \in DOMAIN notebooks |->
                                    [category |-> notebooks[i], price |-> 0]],
                    !.smartphone = [i \in DOMAIN smartphones |->
                                    [category |-> smartphones[i], price |-> 0,
                                     sd |-> TRUE, sd_volume |-> "64"]]]
    /\ contenttypes = ModelOrder
    /\ outcome = [op |-> "none", raises |-> "", ret |-> <<>>]
    /\ PRODUCT_SPEC = PRODUCT_SPEC_INITIAL
    /\ IdleThreads

SidebarNext == GetCategoriesForLeftSidebar

SidebarSpec == SidebarInit /\ [][SidebarNext]_vars

(***************************************************************************)
(* RenderSpec: two request threads render product pages; a thread switch   *)
(* may fall between any two steps of product_spec.                         *)
(***************************************************************************)
RenderInit ==
    /\ db = EmptyDb
    /\ contenttypes = ModelOrder
    /\ outcome = [op |-> "none", raises |-> "", ret |-> <<>>]
    /\ PRODUCT_SPEC = PRODUCT_SPEC_INITIAL
    /\ IdleThreads

RenderNext ==
    \E t \in Threads :
        \/ \E instance \in Rendered : Call(t, instance)
        \/ Toggle(t)
        \/ Enter(t)
        \/ Iterate(t)
        \/ Return(t)

RenderSpec == RenderInit /\ [][RenderNext]_vars

(***************************************************************************)
(* Properties of Product.save (checked under Spec).  outcome' names the     *)
(* operation a step performed and its inputs.                              *)
(***************************************************************************)
\* C1: Product.save with an image whose height is below 300 or whose width is
\* below 300, whatever the other dimension, raises
\* MinResolutionErrorException and leaves the stored products as they were.
C1_TooSmallRejected ==
    [][(/\ outcome'.op = "Product.save"
        /\ (outcome'.ret[1] < 300 \/ outcome'.ret[2] < 300))
            => (outcome'.raises = "MinResolutionErrorException" /\ db' = db)]_vars

\* C1, its case: a save of an image too small in one dimension and too large
\* in the other has raised the "too small" error.
C1_Witness ==
    /\ outcome.op = "Product.save"
    /\ outcome.ret = <<299, 2501>>
    /\ outcome.raises = "MinResolutionErrorException"

\* C2 as claimed: Product.save with an image whose height is above 2500 or
\* whose width is above 2500, whatever the other dimension (also one below
\* 300), raises MaxResolutionErrorException and persists nothing.
C2_TooLargeAlwaysMax ==
    [][(/\ outcome'.op = "Product.save"
        /\ (outcome'.ret[1] > 2500 \/ outcome'.ret[2] > 2500))
            => (outcome'.raises = "MaxResolutionErrorException" /\ db' = db)]_vars

\* C2 as amended: Product.save with an image whose height is above 2500 or
\* whose width is above 2500, and neither dimension below 300, raises
\* MaxResolutionErrorException and persists nothing.
C2_TooLargeRejected ==
    [][(/\ outcome'.op = "Product.save"
        /\ (outcome'.ret[1] > 2500 \/ outcome'.ret[2] > 2500)
        /\ outcome'.ret[1] >= 300 /\ outcome'.ret[2] >= 300)
            => (outcome'.raises = "MaxResolutionErrorException" /\ db' = db)]_vars

\* C2, its case: a save of an image too large in one dimension only has
\* raised the "too large" error.
C2_Witness ==
    /\ outcome.op = "Product.save"
    /\ outcome.ret = <<300, 2501>>
    /\ outcome.raises = "MaxResolutionErrorException"

(***************************************************************************)
(* Properties of CartProduct.save (checked under CartSpec)                 *)
(***************************************************************************)
\* The CartProduct.save the step performed referred to a product that exists.
Resolved == outcome'.ret[3] \in 1..Len(db[outcome'.ret[2]])

\* The line the step saved is now stored with the call's qty and with
\* final_price = qty times the price its product had at the call.
PricedAtSave ==
    LET id == outcome'.ret[1]
        ct == outcome'.ret[2]
        object_id == outcome'.ret[3]
        qty == outcome'.ret[4]
    IN  /\ id \in 1..Len(db'.cartproduct)
        /\ db'.cartproduct[id].qty = qty
        /\ db'.cartproduct[id].final_price = qty * db[ct][object_id].price

\* The product qty * price of the CartProduct.save the step performed.
SavedAmount == outcome'.ret[4] * db[outcome'.ret[2]][outcome'.ret[3]].price

\* C3 as claimed: CartProduct.save with any qty >= 1 on a product of any
\* price >= 0, whatever final_price held before the call, persists
\* final_price = qty * the product's price at that moment.
C3_FinalPriceAlways ==
    [][(outcome'.op = "CartProduct.save" /\ Resolved) => PricedAtSave]_vars

\* C3 as amended: the same, for every qty and price whose product fits the
\* field (qty * price <= 9,999,999.99: max_digits=9 with two places).
C3_FinalPriceWithinField ==
    [][(outcome'.op = "CartProduct.save" /\ Resolved /\ SavedAmount <= 999999999)
            => PricedAtSave]_vars

\* C3, its case: a line of qty 3 on a product priced 5.00, saved with a
\* final_price of 0.07 set by the caller, is stored with final_price 15.00.
C3_Witness ==
    /\ outcome.op = "CartProduct.save"
    /\ outcome.raises = ""
    /\ outcome.ret[4] = 3 /\ outcome.ret[5] = 7
    /\ db[outcome.ret[2]][outcome.ret[3]].price = 500
    /\ db.cartproduct[outcome.ret[1]].final_price = 1500

\* C4 as claimed: a save of a product changes no stored cart line, and the
\* next CartProduct.save of a line leaves its final_price equal to qty * the
\* then-current price.
C4_SnapshotAlways ==
    [][/\ outcome'.op = "Product.save" => db'.cartproduct = db.cartproduct
       /\ (outcome'.op = "CartProduct.save" /\ Resolved) =>
            /\ outcome'.ret[1] \in 1..Len(db'.cartproduct)
            /\ db'.cartproduct[outcome'.ret[1]].final_price = SavedAmount]_vars

\* C4 as amended: a save of a product changes no stored cart line (so a
\* line's final_price may differ from qty * current price), and the next
\* CartProduct.save of a line whose qty * then-current price fits the field
\* (<= 9,999,999.99) leaves its final_price equal to that product.
C4_SnapshotPricing ==
    [][/\ outcome'.op = "Product.save" => db'.cartproduct = db.cartproduct
       /\ (outcome'.op = "CartProduct.save" /\ Resolved /\ SavedAmount <= 999999999) =>
            /\ outcome'.ret[1] \in 1..Len(db'.cartproduct)
            /\ db'.cartproduct[outcome'.ret[1]].final_price = SavedAmount]_vars

\* C4, its case: after a price change that was saved, a stored line's
\* final_price differs from qty * its product's current price.
C4_Witness ==
    /\ outcome.op = "Product.save"
    /\ outcome.raises = ""
    /\ \E i \in DOMAIN db.cartproduct :
        LET line == db.cartproduct[i] IN
            line.final_price # line.qty * db[line.content_type][line.object_id].price

(***************************************************************************)
(* Properties of get_products_for_main_page (checked under LatestSpec)     *)
(***************************************************************************)
\* The instances of model ct in a result, in the result's order.
OfModel(result, ct) == SelectSeq(result, LAMBDA x : x[1] = ct)

\* The instances of the other models in a result, in the result's order.
NotOfModel(result, ct) == SelectSeq(result, LAMBDA x : x[1] # ct)

\* The models that have a ContentType row.
ExistingModels == {contenttypes[i] : i \in 1..Len(contenttypes)}

\* C5: called with a with_respect_to name that is among the requested names
\* and is an existing content type, the result is a permutation of the fetched
\* concatenation in which every instance of that type precedes every instance
\* of any other type, the order within each of the two groups being that of
\* the concatenation.
C5_RespectedTypeFirst ==
    LET args == outcome.ret[1]
        with_respect_to == outcome.ret[2]
        result == outcome.ret[3]
        fetched == FetchedProducts(args)
    IN  (/\ outcome.op = "get_products_for_main_page"
         /\ with_respect_to \in args
         /\ with_respect_to \in ExistingModels)
        => /\ Len(result) = Len(fetched)
           /\ \A i \in 1..Len(result), j \in 1..Len(result) :
                (result[i][1] = with_respect_to /\ result[j][1] # with_respect_to) => i < j
           /\ OfModel(result, with_respect_to) = OfModel(fetched, with_respect_to)
           /\ NotOfModel(result, with_respect_to) = NotOfModel(fetched, with_respect_to)

\* The number of rows the fetch takes of a table of n rows.
Taken(n) == IF n < 5 THEN n ELSE 5

\* C6: when with_respect_to is not given, is not an existing type or is not
\* among the requested names, the call raises nothing and returns, for each
\* requested type, its min(5, n) highest-id instances in descending id order,
\* one type's instances after another's, and no instance of any other type.
C6_PlainConcatenation ==
    LET args == outcome.ret[1]
        with_respect_to == outcome.ret[2]
        result == outcome.ret[3]
    IN  (/\ outcome.op = "get_products_for_main_page"
         /\ (\/ with_respect_to = ""
             \/ with_respect_to \notin ExistingModels
             \/ with_respect_to \notin args))
        => /\ outcome.raises = ""
           /\ \A i \in 1..Len(result) : result[i][1] \in args
           /\ \A ct \in ExistingModels :
                OfModel(result, ct) =
                    IF ct \in args
                    THEN [i \in 1..Taken(Len(db[ct])) |-> <<ct, Len(db[ct]) + 1 - i>>]
                    ELSE <<>>
           /\ \A i \in 1..Len(result), j \in 1..Len(result) :
                (i < j /\ result[i][1] = result[j][1])
                    => \A k \in i..j : result[k][1] = result[i][1]

\* C6, its case: notebooks and smartphones were requested with respect to a
\* type that was not requested, the store holds more than five notebooks, and
\* five of them were returned with the one smartphone.
C6_Witness ==
    /\ outcome.op = "get_products_for_main_page"
    /\ outcome.ret[1] = {"notebook", "smartphone"}
    /\ outcome.ret[2] = "cart"
    /\ Len(db.notebook) > 5 /\ Len(db.smartphone) = 1
    /\ Len(outcome.ret[3]) = 6

(***************************************************************************)
(* Properties of get_categories_for_left_sidebar (checked under            *)
(* SidebarSpec)                                                            *)
(***************************************************************************)
KnownNames == {NOUTBUKI, SMARTFONY}

\* The number of rows of a product table that refer to category c.
RowsIn(model, c) == Cardinality({i \in 1..Len(db[model]) : db[model][i].category = c})

\* C8: when every category is named 'Noutbuki' or 'Smartfony', the call
\* returns one entry {name, url, count} per category, count being the number
\* of notebooks in the category when its name is 'Noutbuki' and the number of
\* smartphones in it when its name is 'Smartfony', also for a category that
\* holds products of both variants.
C8_CountsPerCategory ==
    (/\ outcome.op = "get_categories_for_left_sidebar"
     /\ \A c \in 1..Len(db.category) : db.category[c].name \in KnownNames)
    => /\ outcome.raises = ""
       /\ Len(outcome.ret) = Len(db.category)
       /\ \A c \in 1..Len(db.category) :
            /\ outcome.ret[c].name = db.category[c].name
            /\ outcome.ret[c].url = <<"category_detail", db.category[c].slug>>
            /\ outcome.ret[c].count =
                IF db.category[c].name = NOUTBUKI
                THEN RowsIn("notebook", c) ELSE RowsIn("smartphone", c)

\* C9: when a stored category has a name other than 'Noutbuki' and
\* 'Smartfony', the call raises the lookup error (KeyError), returns no list,
\* not even the entries of the categories with known names, and changes no
\* stored data.
C9_UnknownNameRaises ==
    [][(/\ outcome'.op = "get_categories_for_left_sidebar"
        /\ \E c \in 1..Len(db.category) : db.category[c].name \notin KnownNames)
            => (outcome'.raises = "KeyError" /\ outcome'.ret = <<>> /\ db' = db)]_vars

\* C9, its case: the call has raised over a store that holds a category with
\* a known name next to one with an unknown name.
C9_Witness ==
    /\ outcome.op = "get_categories_for_left_sidebar"
    /\ outcome.raises = "KeyError"
    /\ Len(db.category) = 2
    /\ db.category[1].name = NOUTBUKI
    /\ db.category[2].name = PLANSHETY
    /\ RowsIn("notebook", 1) > 0

(***************************************************************************)
(* Properties of product_spec (checked under RenderSpec)                   *)
(***************************************************************************)
\* The labels of the rows of a rendered table.
Labels(rows) == {rows[i][1] : i \in 1..Len(rows)}

\* C7: the table rendered for a smartphone with sd=False has no row labelled
\* 'Maks. obyom vstraivaemoy pamyati' (sd_volume), and the table rendered for
\* one with sd=True has that row with the instance's sd_volume, after any
\* sequence of earlier product_spec calls.
C7_SdVolumeRowFollowsSd ==
    (outcome.op = "product_spec" /\ outcome.ret[1].model_name = "smartphone")
    => LET instance == outcome.ret[1]
           rows == outcome.ret[2]
       IN  IF instance.sd
           THEN \E i \in 1..Len(rows) : rows[i] = <<SD_VOLUME_LABEL, instance.sd_volume>>
           ELSE SD_VOLUME_LABEL \notin Labels(rows)

\* The rows product_spec renders for an instance when no other call runs:
\* its own toggle of the mapping as the module defines it, then the loop.
RowsAlone(instance) ==
    LET toggled ==
            IF instance.model_name = "smartphone"
            THEN IF ~instance.sd
                 THEN DictPop(PRODUCT_SPEC_INITIAL.smartphone, POPPED_LABEL)
                 ELSE DictSet(PRODUCT_SPEC_INITIAL.smartphone, SD_VOLUME_LABEL, "sd_volume")
            ELSE PRODUCT_SPEC_INITIAL[instance.model_name]
    IN  [i \in 1..Len(toggled) |-> <<toggled[i][1], FormatAttr(instance, toggled[i][2])>>]

\* In every interleaving, every call returns the rows it renders when run
\* alone: the mapping is shared, but no call changes it.
RendersAsAlone ==
    /\ PRODUCT_SPEC = PRODUCT_SPEC_INITIAL
    /\ outcome.op = "product_spec"
        => (outcome.raises = "" /\ outcome.ret[2] = RowsAlone(outcome.ret[1]))

\* C10, the mechanism it rests on: each smartphone rendering toggles the
\* shared mapping according to its instance's sd flag, so that right after a
\* call's toggle the mapping holds the sd_volume row exactly when that
\* instance has sd=True (which is what lets two calls with different flags
\* render each other's row set).
C10_ToggleFollowsSd ==
    [][\A t \in Threads :
        (/\ pc[t] = "toggle" /\ pc'[t] = "enter"
         /\ product[t].model_name = "smartphone")
            => (HasKey(PRODUCT_SPEC'.smartphone, SD_VOLUME_LABEL) <=> product[t].sd)]_vars

====
